---- MODULE Spec2Model ----
(***************************************************************************)
(* A model of setup-ai-tools.py (ContextHub): the files of the project     *)
(* directory the script touches, and one action per function of the        *)
(* script.  A session is a sequence of runs of the script (full setup,     *)
(* --verify, --backup-only) on the same directory.                         *)
(*                                                                         *)
(* The environment decides what the script cannot: the platform, the       *)
(* privilege, whether symlink_to works in the probe, the second in which a *)
(* run takes place, and which of the I/O calls of materializing a target   *)
(* (copy2 and unlink of the backup, resolve, symlink_to and copy2 of the   *)
(* link) raise.                                                            *)
(***************************************************************************)
EXTENDS Integers, FiniteSets, Sequences, TLC

(* ------------------------------ bounds -------------------------------- *)

\* I/O errors the environment raises in one session
MaxFaults == 1

(* --------------------------- configuration ---------------------------- *)

\* len(AI_CONFIGS): CLAUDE.md, .cursorrules, .github/copilot-instructions.md,
\* .codeium/instructions.md, .continue/context.md, in dict order
NumTargets == 5
Targets == 1..NumTargets
\* the targets whose parent is not the project directory itself
Nested == {3, 4, 5}

\* Path(MASTER_FILE) as written, and after Path.resolve()
MASTER_FILE == ".ai-context.md"
ABS_MASTER == "/abs/.ai-context.md"

\* file contents: the template create_master_config writes, a master file the
\* user wrote, a target file the user wrote
TEMPLATE == "tmpl"
Contents == {"tmpl", "user", "orig"}
NoFile == ""

(* ------------------------------- state -------------------------------- *)

VARIABLES
    pc,             \* position of the running process, "idle" between runs
    mode,           \* "setup" | "verify" | "backup": the branch main() takes
    force_copy,     \* args.force_copy
    system,         \* platform.system(), "" when not read
    is_privileged,  \* is_admin()
    can_symlink,    \* check_symlink_support()
    use_symlinks,   \* the strategy of main_setup
    idx,            \* the loop over AI_CONFIGS
    success_count,  \* main_setup's counter
    verify_result,  \* what verify_setup returned
    exit_code,      \* the exit status of the last run
    master,         \* content of .ai-context.md, NoFile when absent
    tgt,            \* the five target paths
    dirs,           \* the parent directories of the nested targets that exist
    backup_dir,     \* .ai-tools-backup exists
    backups,        \* per target, the files <name>_<timestamp> of the backup
                    \* directory: now, the content of the one that carries
                    \* the current second (NoFile when there is none), and
                    \* earlier, the contents of those of earlier seconds
    gitignore,      \* [exists, entries]: .gitignore and its backup entries
    aider,          \* .aider.conf.yml exists
    probe_fs,       \* what exists of symlink_test, test.txt, test_link.txt
    faults,         \* I/O errors raised so far
    results,        \* history: what create_config_link returned per target
    ran,            \* history: the steps of main_setup this run reached
    abort_cause,    \* history: the call whose exception ended the run
    run_faulted,    \* history: an I/O error was raised in this run
    appended,       \* history: this run appended to .gitignore
    prev            \* history: the run before this one, when it was a full
                    \* setup in which no I/O error was raised

vars == <<pc, mode, force_copy, system, is_privileged, can_symlink,
          use_symlinks, idx, success_count, verify_result, exit_code, master,
          tgt, dirs, backup_dir, backups, gitignore, aider, probe_fs,
          faults, results, ran, abort_cause, run_faulted, appended,
          prev>>

fsVars == <<master, tgt, dirs, backup_dir, backups, gitignore, aider,
            probe_fs>>
histVars == <<results, ran, abort_cause, run_faulted, appended, prev>>

(* ----------------------------- file system ---------------------------- *)

Absent == [kind |-> "absent", data |-> ""]
File(c) == [kind |-> "file", data |-> c]
Symlink(p) == [kind |-> "symlink", data |-> p]

\* Path.is_symlink()
IsSymlink(i) == tgt[i].kind = "symlink"

\* a link resolves when what it names exists: the absolute path names the
\* master file; the relative one names it only from the project directory
LinkResolves(i) ==
    /\ master # NoFile
    /\ \/ tgt[i].data = ABS_MASTER
       \/ tgt[i].data = MASTER_FILE /\ i \notin Nested

\* Path.exists(): follows symbolic links
PathExists(i) ==
    \/ tgt[i].kind = "file"
    \/ IsSymlink(i) /\ LinkResolves(i)

\* the directory a target is created in exists
ParentExists(i) == i \notin Nested \/ i \in dirs

(* --------------------------- pure functions --------------------------- *)

\* ChooseStrategy with the two Windows conditions joined by "or"
ChooseStrategyEither(fc, sys, priv, cs) ==
    IF fc THEN FALSE
    ELSE IF sys = "Windows" THEN priv \/ cs
    ELSE cs

\* main_setup, lines 334-339: the strategy, TRUE for SYMLINK
ChooseStrategy(fc, sys, priv, cs) ==
    IF fc THEN FALSE
    ELSE IF sys = "Windows" THEN priv /\ cs
    ELSE cs

\* MasterAfterCreate without the test of line 123
MasterAlwaysWritten(m) == TEMPLATE

\* create_master_config: the master file after the call
MasterAfterCreate(m) == IF m = NoFile THEN TEMPLATE ELSE m

\* ResolvedMaster without the call of resolve
UnresolvedMaster == MASTER_FILE

\* Path(target).resolve(): what the symlink is made to name
ResolvedMaster == ABS_MASTER

\* GitignoreAfter without the test of line 194
GitignoreAlwaysAppended(g) ==
    IF g.exists THEN [g EXCEPT !.entries = g.entries + 1] ELSE g

\* create_backup_dir, lines 191-196: .gitignore after the directory was made
GitignoreAfter(g) ==
    IF g.exists /\ g.entries = 0
    THEN [g EXCEPT !.entries = g.entries + 1]
    ELSE g

\* verify_setup, lines 289-307: the counter failed
VerifyFailed ==
    (IF master = NoFile THEN 1 ELSE 0)
        + Cardinality({i \in Targets : ~PathExists(i)})

\* VerifyResult with a missing .aider.conf.yml counted as a failure
VerifyResultWithAider == VerifyFailed + (IF aider THEN 0 ELSE 1) = 0

\* verify_setup, lines 315-320: failed == 0
VerifyResult == VerifyFailed = 0

\* check_symlink_support: what is left of the probe's files on each way out
ProbeLeaves(fs, outcome) ==
    IF outcome = "symlink_error" THEN fs \cup {"dir", "file"} ELSE {}

(* ------------------------------ helpers ------------------------------- *)

\* the environment raises an I/O error in the call / does not
Fault == faults < MaxFaults /\ faults' = faults + 1 /\ run_faulted' = TRUE
NoFault == UNCHANGED <<faults, run_faulted>>

\* main, lines 453-455: an exception no function caught ends the process
Abort(cause) ==
    /\ pc' = "idle"
    /\ exit_code' = 1
    /\ abort_cause' = cause
    /\ UNCHANGED <<idx, success_count, results>>

\* the loop body is over for target idx: main_setup (lines 361-363) counts the
\* result, main (lines 441-444) ignores it and exits 0 after the last one
TargetDone(r) ==
    /\ idx' = idx + 1
    /\ UNCHANGED abort_cause
    /\ IF mode = "setup"
       THEN /\ results' = [results EXCEPT ![idx] = r]
            /\ success_count' = IF r = "ok" THEN success_count + 1
                                ELSE success_count
            /\ pc' = IF idx = NumTargets THEN "aider" ELSE "ensure"
            /\ UNCHANGED exit_code
       ELSE /\ UNCHANGED <<results, success_count>>
            /\ IF idx = NumTargets
               THEN pc' = "idle" /\ exit_code' = 0
               ELSE pc' = "backup" /\ UNCHANGED exit_code

\* BackupReturnedTrue with the link created in every mode
BackupThenAlwaysCreate ==
    /\ pc' = "create"
    /\ UNCHANGED <<idx, success_count, results, exit_code, abort_cause>>

\* backup_existing_file returned TRUE: create_config_link goes on to create
\* the link, main's --backup-only loop goes to the next target
BackupReturnedTrue ==
    IF mode = "setup"
    THEN /\ pc' = "create"
         /\ UNCHANGED <<idx, success_count, results, exit_code,
                        abort_cause>>
    ELSE TargetDone("none")

(* ------------------------------- Init --------------------------------- *)

NoRun == [mode |-> "none", force_copy |-> FALSE, use_symlinks |-> FALSE,
          verify_result |-> FALSE]

\* what the target paths hold before the first run: a clean checkout, every
\* tool's file written by the user, every one a link to the master file left
\* by an earlier setup, or some of each
InitialTargets ==
    {[i \in Targets |-> Absent],
     [i \in Targets |-> File("orig")],
     [i \in Targets |-> Symlink(ABS_MASTER)],
     <<File("orig"), Symlink(ABS_MASTER), Absent, File("orig"),
       Symlink(ABS_MASTER)>>}

Init ==
    /\ pc = "idle"
    /\ mode = "none"
    /\ force_copy = FALSE
    /\ system = ""
    /\ is_privileged = FALSE
    /\ can_symlink = FALSE
    /\ use_symlinks = FALSE
    /\ idx = 1
    /\ success_count = 0
    /\ verify_result = FALSE
    /\ exit_code = 0
    /\ master \in {NoFile, "user"}
    /\ tgt \in InitialTargets
    /\ dirs = {i \in Nested : tgt[i] # Absent}
    /\ backup_dir = FALSE
    /\ backups = [i \in Targets |-> [now |-> NoFile, earlier |-> {}]]
    /\ gitignore \in {[exists |-> FALSE, entries |-> 0],
                      [exists |-> TRUE, entries |-> 0],
                      [exists |-> TRUE, entries |-> 1]}
    /\ aider = FALSE
    /\ probe_fs = {}
    /\ faults = 0
    /\ results = [i \in Targets |-> "none"]
    /\ ran = {}
    /\ abort_cause = "none"
    /\ run_faulted = FALSE
    /\ appended = FALSE
    /\ prev = NoRun

(* ------------------------------ actions ------------------------------- *)

\* main, lines 430-447: parse the arguments and take the branch.  A session is
\* followed to the end of the run in which the last of MaxFaults I/O errors
\* is raised
Start(m, fc) ==
    /\ pc = "idle"
    /\ faults < MaxFaults
    /\ mode' = m
    /\ force_copy' = fc
    /\ pc' = CASE m = "verify" -> "verify"
               [] m = "backup" -> "backup_dir"
               [] OTHER -> "probe"
    /\ system' = ""
    /\ is_privileged' = FALSE
    /\ can_symlink' = FALSE
    /\ use_symlinks' = FALSE
    /\ idx' = 1
    /\ success_count' = 0
    /\ verify_result' = FALSE
    /\ results' = [i \in Targets |-> "none"]
    /\ ran' = {}
    /\ abort_cause' = "none"
    /\ run_faulted' = FALSE
    /\ appended' = FALSE
    /\ prev' = IF mode = "setup" /\ ~run_faulted
               THEN [mode |-> mode, force_copy |-> force_copy,
                     use_symlinks |-> use_symlinks,
                     verify_result |-> verify_result]
               ELSE NoRun
    /\ UNCHANGED <<exit_code, faults>>
    /\ UNCHANGED fsVars

\* the wall clock reaches the next second: the backup files that carried the
\* current second now carry an earlier one.  The names of one run's backups
\* differ by the target's file name, so the clock is read between runs
Tick ==
    /\ pc = "idle"
    /\ \E i \in Targets : backups[i].now # NoFile
    /\ backups' = [i \in Targets |->
                      IF backups[i].now = NoFile THEN backups[i]
                      ELSE [now |-> NoFile,
                            earlier |-> backups[i].earlier
                                          \cup {backups[i].now}]]
    /\ UNCHANGED <<pc, mode, force_copy, system, is_privileged, can_symlink,
                   use_symlinks, idx, success_count, verify_result, exit_code,
                   faults>>
    /\ UNCHANGED <<master, tgt, dirs, backup_dir, gitignore, aider, probe_fs>>
    /\ UNCHANGED histVars

\* check_symlink_support, lines 83-106
CheckSymlinkSupport ==
    /\ pc = "probe"
    /\ pc' = "strategy"
    /\ \/ \* test_link.symlink_to raises: the platform has no symlinks
          /\ probe_fs' = ProbeLeaves(probe_fs, "symlink_error")
          /\ can_symlink' = FALSE
       \/ \* the link is made, found to be a link, and all three are removed
          /\ "link" \notin probe_fs
          /\ probe_fs' = ProbeLeaves(probe_fs, "ok")
          /\ can_symlink' = TRUE
    /\ UNCHANGED <<faults, run_faulted>>
    /\ UNCHANGED <<mode, force_copy, system, is_privileged, use_symlinks, idx,
                   success_count, verify_result, exit_code>>
    /\ UNCHANGED <<master, tgt, dirs, backup_dir, backups, gitignore, aider>>
    /\ UNCHANGED <<results, ran, abort_cause, appended, prev>>

\* main_setup, lines 328-347: read the platform and choose the strategy
DetermineStrategy ==
    /\ pc = "strategy"
    /\ pc' = "master"
    /\ \E sys \in {"Windows", "Linux"}, priv \in BOOLEAN :
          /\ system' = sys
          /\ is_privileged' = priv
          /\ use_symlinks' = ChooseStrategy(force_copy, sys, priv, can_symlink)
    /\ UNCHANGED <<mode, force_copy, can_symlink, idx, success_count,
                   verify_result, exit_code, faults>>
    /\ UNCHANGED fsVars
    /\ UNCHANGED histVars

\* create_master_config, lines 119-180.  system, is_privileged and can_symlink
\* are not read after line 345: they are dropped here
CreateMasterConfig ==
    /\ pc = "master"
    /\ pc' = "backup_dir"
    /\ master' = MasterAfterCreate(master)
    /\ system' = ""
    /\ is_privileged' = FALSE
    /\ can_symlink' = FALSE
    /\ UNCHANGED <<mode, force_copy, use_symlinks, idx, success_count,
                   verify_result, exit_code, faults>>
    /\ UNCHANGED <<tgt, dirs, backup_dir, backups, gitignore, aider, probe_fs>>
    /\ UNCHANGED histVars

\* create_backup_dir, lines 182-197
CreateBackupDir ==
    /\ pc = "backup_dir"
    /\ pc' = IF mode = "setup" THEN "ensure" ELSE "backup"
    /\ IF ~backup_dir
       THEN /\ backup_dir' = TRUE
            /\ gitignore' = GitignoreAfter(gitignore)
            /\ appended' = (gitignore' # gitignore)
       ELSE UNCHANGED <<backup_dir, gitignore, appended>>
    /\ UNCHANGED <<mode, force_copy, system, is_privileged, can_symlink,
                   use_symlinks, idx, success_count, verify_result, exit_code, faults>>
    /\ UNCHANGED <<master, tgt, dirs, backups, aider, probe_fs>>
    /\ UNCHANGED <<results, ran, abort_cause, run_faulted, prev>>

\* ensure_directory, lines 224-231
EnsureDirectory ==
    /\ pc = "ensure"
    /\ pc' = "backup"
    /\ dirs' = IF ParentExists(idx) THEN dirs ELSE dirs \cup {idx}
    /\ UNCHANGED <<mode, force_copy, system, is_privileged, can_symlink,
                   use_symlinks, idx, success_count, verify_result, exit_code,
                   faults>>
    /\ UNCHANGED <<master, tgt, backup_dir, backups, gitignore, aider,
                   probe_fs>>
    /\ UNCHANGED histVars

\* BackupExistingFile with a regular file removed like a link, not copied
BackupWithoutCopy ==
    /\ pc = "backup"
    /\ \/ /\ ~(PathExists(idx) \/ IsSymlink(idx))
          /\ BackupReturnedTrue
          /\ UNCHANGED <<tgt, backups>>
       \/ /\ PathExists(idx) \/ IsSymlink(idx)
          /\ tgt' = [tgt EXCEPT ![idx] = Absent]
          /\ BackupReturnedTrue
          /\ UNCHANGED backups
    /\ NoFault
    /\ UNCHANGED <<mode, force_copy, system, is_privileged, can_symlink,
                   use_symlinks, verify_result>>
    /\ UNCHANGED <<master, dirs, backup_dir, gitignore, aider, probe_fs>>
    /\ UNCHANGED <<ran, appended, prev>>

\* backup_existing_file, lines 199-214 and 217-222: the test of the path, the
\* removal of a link, the copy of a regular file into the backup directory
BackupExistingFile ==
    /\ pc = "backup"
    /\ \/ \* nothing at the path
          /\ ~(PathExists(idx) \/ IsSymlink(idx))
          /\ BackupReturnedTrue
          /\ UNCHANGED <<tgt, backups>>
       \/ \* a link: unlink it, no backup
          /\ IsSymlink(idx)
          /\ tgt' = [tgt EXCEPT ![idx] = Absent]
          /\ BackupReturnedTrue
          /\ UNCHANGED backups
       \/ \* a regular file: shutil.copy2 to <name>_<timestamp>
          /\ ~IsSymlink(idx) /\ PathExists(idx)
          /\ backup_dir
          /\ backups' = [backups EXCEPT ![idx].now = tgt[idx].data]
          /\ pc' = "unlink"
          /\ UNCHANGED <<tgt, idx, success_count, results, exit_code,
                         abort_cause>>
    /\ NoFault
    /\ UNCHANGED <<mode, force_copy, system, is_privileged, can_symlink,
                   use_symlinks, verify_result>>
    /\ UNCHANGED <<master, dirs, backup_dir, gitignore, aider, probe_fs>>
    /\ UNCHANGED <<ran, appended, prev>>

\* backup_existing_file, lines 215-217: the removal of the file just copied
BackupUnlink ==
    /\ pc = "unlink"
    /\ tgt' = [tgt EXCEPT ![idx] = Absent]
    /\ BackupReturnedTrue
    /\ NoFault
    /\ UNCHANGED <<mode, force_copy, system, is_privileged, can_symlink,
                   use_symlinks, verify_result>>
    /\ UNCHANGED <<master, dirs, backup_dir, backups, gitignore, aider,
                   probe_fs>>
    /\ UNCHANGED <<ran, appended, prev>>

\* backup_existing_file, lines 218-220: unlink or copy2 raised, the handler
\* returns False and the path is left as it was
BackupError ==
    /\ \/ pc = "backup" /\ (PathExists(idx) \/ IsSymlink(idx))
       \/ pc = "unlink"
    /\ Fault
    /\ TargetDone("fail")
    /\ UNCHANGED <<mode, force_copy, system, is_privileged, can_symlink,
                   use_symlinks, verify_result>>
    /\ UNCHANGED fsVars
    /\ UNCHANGED <<ran, appended, prev>>

\* Path.symlink_to / shutil.copy2 at the target path can succeed
CanCreate(i) ==
    /\ ParentExists(i)
    /\ IF use_symlinks THEN tgt[i].kind = "absent"
       ELSE master # NoFile /\ tgt[i].kind # "symlink"

\* what create_config_link puts at the target path
Created == IF use_symlinks THEN Symlink(ResolvedMaster) ELSE File(master)

\* create_config_link, lines 242-254: the link or the copy
CreateLink ==
    /\ pc = "create"
    /\ IF CanCreate(idx)
       THEN tgt' = [tgt EXCEPT ![idx] = Created] /\ TargetDone("ok")
       ELSE UNCHANGED tgt /\ TargetDone("fail")
    /\ NoFault
    /\ UNCHANGED <<mode, force_copy, system, is_privileged, can_symlink,
                   use_symlinks, verify_result>>
    /\ UNCHANGED <<master, dirs, backup_dir, backups, gitignore, aider,
                   probe_fs>>
    /\ UNCHANGED <<ran, appended, prev>>

\* create_config_link, lines 255-257: symlink_to or copy2 raised, the handler
\* returns False
CreateError ==
    /\ pc = "create"
    /\ Fault
    /\ TargetDone("fail")
    /\ UNCHANGED <<mode, force_copy, system, is_privileged, can_symlink,
                   use_symlinks, verify_result>>
    /\ UNCHANGED fsVars
    /\ UNCHANGED <<ran, appended, prev>>

\* create_config_link, line 242: Path.resolve is called before the try of
\* line 245, so what it raises leaves create_config_link and main_setup
ResolveError ==
    /\ pc = "create"
    /\ Fault
    /\ Abort("resolve")
    /\ UNCHANGED <<mode, force_copy, system, is_privileged, can_symlink,
                   use_symlinks, verify_result>>
    /\ UNCHANGED fsVars
    /\ UNCHANGED <<ran, appended, prev>>

\* create_aider_config, lines 259-284
CreateAiderConfig ==
    /\ pc = "aider"
    /\ pc' = "verify"
    /\ aider' = TRUE
    /\ ran' = ran \cup {"aider"}
    /\ UNCHANGED <<mode, force_copy, system, is_privileged, can_symlink,
                   use_symlinks, idx, success_count, verify_result, exit_code,
                   faults>>
    /\ UNCHANGED <<master, tgt, dirs, backup_dir, backups, gitignore,
                   probe_fs>>
    /\ UNCHANGED <<results, abort_cause, run_faulted, appended, prev>>

\* the exit status after verify_setup: main, line 436, for --verify; main_setup
\* returns and the process ends with 0
ExitCodeAfterVerify(m, r) == IF m = "verify" /\ ~r THEN 1 ELSE 0

\* verify_setup, lines 286-320, and the end of the run after it
VerifySetup ==
    /\ pc = "verify"
    /\ pc' = "idle"
    /\ verify_result' = VerifyResult
    /\ exit_code' = ExitCodeAfterVerify(mode, VerifyResult)
    /\ ran' = ran \cup {"verify"}
    /\ UNCHANGED <<mode, force_copy, system, is_privileged, can_symlink,
                   use_symlinks, idx, success_count, faults>>
    /\ UNCHANGED fsVars
    /\ UNCHANGED <<results, abort_cause, run_faulted, appended, prev>>

(* --------------------------- specification ---------------------------- *)

Next ==
    \/ \E m \in {"setup", "verify", "backup"} :
          \E fc \in (IF m = "setup" THEN BOOLEAN ELSE {FALSE}) : Start(m, fc)
    \/ Tick
    \/ CheckSymlinkSupport
    \/ DetermineStrategy
    \/ CreateMasterConfig
    \/ CreateBackupDir
    \/ EnsureDirectory
    \/ BackupExistingFile
    \/ BackupUnlink
    \/ BackupError
    \/ CreateLink
    \/ CreateError
    \/ ResolveError
    \/ CreateAiderConfig
    \/ VerifySetup

Spec == Init /\ [][Next]_vars

(* ------------------------------ claims -------------------------------- *)

\* the contents of the backup files of target i in a backup directory b
BackupContents(b, i) == (b[i].earlier \cup {b[i].now}) \ {NoFile}

\* C1: once a full setup has counted all 5 targets as successes, every target
\* path exists; with the SYMLINK strategy each is a symlink that names the
\* master file's absolute path, with the COPY strategy each is a regular file
\* with the master file's content.
C1_SuccessfulRunMaterializesAll ==
    (mode = "setup" /\ success_count = NumTargets) =>
        \A i \in Targets :
            /\ PathExists(i)
            /\ use_symlinks => tgt[i] = Symlink(ABS_MASTER)
            /\ ~use_symlinks => tgt[i] = File(master)

\* a COPY run over the user's own files has ended with 5 successes
C1_Witness ==
    /\ pc = "idle" /\ mode = "setup" /\ ~use_symlinks
    /\ success_count = NumTargets
    /\ master = "user"
    /\ \A i \in Targets : "orig" \in BackupContents(backups, i)

\* C2: in a full setup, a target that is a regular file is removed or replaced
\* only in a step before which the backup directory already holds a file with
\* its content.
C2_BackupBeforeRemoval ==
    [][\A i \in Targets :
          (mode = "setup" /\ tgt[i].kind = "file" /\ tgt'[i] # tgt[i])
              => tgt[i].data \in BackupContents(backups, i)]_vars

\* a full setup has replaced a file of the user's by a link; its content is in
\* the backup directory
C2_Witness ==
    /\ pc = "idle" /\ mode = "setup"
    /\ \E i \in Targets :
          /\ tgt[i] = Symlink(ABS_MASTER)
          /\ backups[i].now = "orig"

\* C3: when a full setup in which no I/O error was raised follows another
\* with the same --force-copy flag and the same strategy, its verification
\* result is that of the first, it has appended nothing to .gitignore, and
\* .gitignore holds the backup entry at most once.
C3_SecondRunIdempotent ==
    (/\ pc = "idle" /\ mode = "setup" /\ ~run_faulted
     /\ prev.mode = "setup"
     /\ prev.force_copy = force_copy
     /\ prev.use_symlinks = use_symlinks)
        => /\ verify_result = prev.verify_result
           /\ ~appended
           /\ gitignore.entries <= 1

\* two COPY runs in a row have ended, on a project whose .gitignore the first
\* one extended
C3_Witness ==
    /\ pc = "idle" /\ mode = "setup" /\ ~run_faulted
    /\ prev.mode = "setup"
    /\ prev.force_copy = force_copy
    /\ prev.use_symlinks = use_symlinks
    /\ ~use_symlinks
    /\ verify_result
    /\ gitignore.exists /\ gitignore.entries = 1
    /\ \E i \in Targets : BackupContents(backups, i) = {"orig", master}

\* C4: no step changes the content of a master file that exists, and a master
\* file that comes into existence holds the template.
C4_MasterNeverModified ==
    [][/\ master # NoFile => master' = master
       /\ master = NoFile => master' \in {NoFile, TEMPLATE}]_vars

\* a COPY run has replaced links to the user's master file by copies of it
C4_Witness ==
    /\ pc = "idle" /\ mode = "setup" /\ ~use_symlinks
    /\ master = "user"
    /\ \A i \in Targets : tgt[i] = File("user")
    /\ \A i \in Targets : BackupContents(backups, i) = {}

\* C5: the verifier changes no file, returns true exactly when the master file
\* and all 5 targets exist, and in --verify mode the exit status is 0 exactly
\* when it returned true.
C5_VerifierResult ==
    [][pc = "verify" =>
          /\ UNCHANGED fsVars
          /\ verify_result' = (master # NoFile
                                 /\ \A i \in Targets : PathExists(i))
          /\ mode = "verify" =>
                exit_code' = (IF verify_result' THEN 0 ELSE 1)]_vars

\* --verify has passed on a project without .aider.conf.yml
C5_Witness ==
    /\ pc = "idle" /\ mode = "verify" /\ "verify" \in ran
    /\ verify_result /\ exit_code = 0
    /\ ~aider

\* C6: no step of a --backup-only run creates the master file, the auxiliary
\* file, a directory or a target: a target is left alone or removed, and a
\* backup file is written only with the content of a regular file at the
\* target's path.
C6_BackupOnlyCreatesNothing ==
    [][mode = "backup" =>
          /\ master' = master
          /\ aider' = aider
          /\ dirs' = dirs
          /\ gitignore'.exists = gitignore.exists
          /\ \A i \in Targets :
                /\ tgt'[i] \in {tgt[i], Absent}
                /\ (pc # "idle" /\ backups'[i] # backups[i]) =>
                      /\ tgt[i].kind = "file"
                      /\ backups'[i].now = tgt[i].data]_vars

\* a --backup-only run on a project with no master file has moved a file
\* of the user's into the backup directory
C6_Witness ==
    /\ pc = "idle" /\ mode = "backup" /\ exit_code = 0
    /\ master = NoFile /\ ~aider
    /\ \E i \in Targets : tgt[i] = Absent /\ backups[i].now = "orig"

\* C7: the strategy is COPY with --force-copy; otherwise on Windows it is
\* SYMLINK exactly when the process is privileged and symlinks are supported,
\* and elsewhere exactly when symlinks are supported; every target the run
\* created is of the kind of that one strategy.
C7_StrategyIsFunctionOfInputs ==
    /\ pc = "master" =>
          /\ force_copy => ~use_symlinks
          /\ (~force_copy /\ system = "Windows") =>
                (use_symlinks <=> (is_privileged /\ can_symlink))
          /\ (~force_copy /\ system # "Windows") =>
                (use_symlinks <=> can_symlink)
    /\ mode = "setup" =>
          /\ force_copy => ~use_symlinks
          /\ \A i \in Targets :
                results[i] = "ok" =>
                    tgt[i].kind = (IF use_symlinks THEN "symlink" ELSE "file")

\* on Windows, unprivileged, with symlinks supported and no --force-copy, the
\* run has created its targets as copies
C7_Witness ==
    /\ pc = "master" /\ ~force_copy
    /\ system = "Windows" /\ ~is_privileged /\ can_symlink
    /\ ~use_symlinks

\* C8: when a full setup has ended, all 5 targets were attempted, the
\* auxiliary step and the verifier ran, and success_count is the number of
\* targets whose materialization returned success.
C8_FailureIsPerTarget ==
    (pc = "idle" /\ mode = "setup") =>
        /\ \A i \in Targets : results[i] # "none"
        /\ {"aider", "verify"} \subseteq ran
        /\ success_count = Cardinality({i \in Targets : results[i] = "ok"})

\* C9: a probe that reports "not supported" leaves behind none of the files
\* it created.
C9_ProbeCleansUp ==
    [][(pc = "probe" /\ ~can_symlink') => probe_fs' \subseteq probe_fs]_vars

\* C10: a content the backup directory holds for a target is still held after
\* every step.
C10_BackupsKept ==
    [][\A i \in Targets :
          BackupContents(backups, i) \subseteq BackupContents(backups', i)]_vars

====
